---------------------------- MODULE Spec2Model ----------------------------
(***************************************************************************)
(* Model of shadows_of_the_knight_ep_2.cpp: the Game object (Building,     *)
(* turn counter, Batman, Strategy), its constructor reading the bootstrap  *)
(* values from the input stream, the turn Game::NextTurn (BeforeTurn,      *)
(* OnTurn, AfterTurn) and the loop of main.                                *)
(*                                                                         *)
(* The input stream is the environment: every value read from it is drawn  *)
(* from a small set at the moment it is read.  A read from a failed or     *)
(* exhausted stream yields an int that is 0 or indeterminate and an empty  *)
(* token; both are members of the sets the reads draw from.                *)
(***************************************************************************)
EXTENDS Integers, Sequences, FiniteSets

VARIABLES
    pc,          \* control position of the program
    caller,      \* who invoked the NextTurn in progress: "main" or "client"
    House,       \* Game::House  (Building: Width, Height)
    TurnsLeft,   \* Game::TurnsLeft
    Player,      \* Game::Player (Batman: Position)
    Strategy,    \* Game::Strategy (dynamic type of the held IStrategy)
    initialized, \* members of Game initialised so far, in order
    checked,     \* messages of the CheckArgument calls made so far, in order
    readInts,    \* ints extracted from the input stream so far, in order
    tokensRead,  \* number of feedback tokens extracted from the input stream
    bombDir,     \* OnTurn's local bombDir (NoToken outside its scope)
    output,      \* coordinates written to the output stream, in order
    exc,         \* the exception raised last ("none" if none)
    firstQuery,  \* the first MakeDecision call: its argument and its result
    bomb,        \* environment: the planted target
    consistent,  \* environment: every feedback token so far agreed with bomb
    window       \* environment: the coordinates the feedback has not excluded

vars == <<pc, caller, House, TurnsLeft, Player, Strategy, initialized, checked,
          readInts, tokensRead, bombDir, output, exc, firstQuery, bomb, consistent,
          window>>

---------------------------------------------------------------------------
(* Program constants *)

MIN_WIDTH == 1
MAX_WIDTH == 10000
MIN_HEIGHT == 5
MAX_HEIGHT == 10000
STOP_BELOW_TURNS == 1
MIN_INPUT_TURNS == 2
MAX_INPUT_TURNS == 100

(* Bounds of the model *)

\* how far outside a validated range the bootstrap inputs reach
Margin == 1
\* an interior building width and turn budget (the scenario of the spec)
ScenarioWidth == 10
ScenarioTurns == 20

Around(lo, hi) == ((lo - Margin) .. lo) \cup (hi .. (hi + Margin))

WidthInputs == Around(MIN_WIDTH, MAX_WIDTH) \cup {ScenarioWidth}
HeightInputs == Around(MIN_HEIGHT, MAX_HEIGHT)
TurnsInputs == Around(MIN_INPUT_TURNS, MAX_INPUT_TURNS) \cup {ScenarioTurns}
XInputs == Around(0, MAX_WIDTH - 1)
YInputs == Around(0, MAX_HEIGHT - 1)

\* feedback tokens the environment may send; "" is what a failed read leaves
Tokens == {"U", "D", "L", "R", "FOUND", ""}
NoToken == "<out of scope>"

---------------------------------------------------------------------------
(* Values *)

Point(x, y) == [X |-> x, Y |-> y]

NoBuilding == [Width |-> 0, Height |-> 0]
NoBatman == [Position |-> Point(0, 0)]

NoQuery == [asked |-> FALSE, token |-> NoToken, point |-> Point(0, 0)]

InvalidArgument == "InvalidArgument"
SessionNotRunning == "SessionNotRunning"

---------------------------------------------------------------------------
(* Argument validation *)

\* CheckArgument: throws std::runtime_error when the predicate rejects the
\* argument, returns the argument otherwise.
CheckArgument(argument, accepted, message) ==
    IF ~accepted
    THEN [thrown |-> TRUE, value |-> argument, what |-> message]
    ELSE [thrown |-> FALSE, value |-> argument, what |-> message]

\* bug: a width of 0 is accepted
WidthPred_Zero(w) == w >= 0 /\ w <= MAX_WIDTH

WidthPred(w) == w >= MIN_WIDTH /\ w <= MAX_WIDTH

\* bug: the lower limit of the width used for the height
HeightPred_Low(h) == h >= MIN_WIDTH /\ h <= MAX_HEIGHT

HeightPred(h) == h >= MIN_HEIGHT /\ h <= MAX_HEIGHT

X0Pred(x0) == x0 >= 0 /\ x0 < MAX_WIDTH

Y0Pred(y0) == y0 >= 0 /\ y0 < MAX_HEIGHT

\* bug: the stop threshold used as the least budget
TurnsPred_Wide(turns) == turns >= STOP_BELOW_TURNS /\ turns <= MAX_INPUT_TURNS

\* bug: one turn more than the maximum is accepted
TurnsPred_High(turns) == turns >= MIN_INPUT_TURNS /\ turns <= MAX_INPUT_TURNS + 1

TurnsPred(turns) == turns >= MIN_INPUT_TURNS /\ turns <= MAX_INPUT_TURNS

\* bug: Height is declared, hence initialised and checked, before Width
BuildingCtor_HeightFirst(width, height) ==
    LET cw == CheckArgument(width, WidthPred(width), "Building width")
        ch == CheckArgument(height, HeightPred(height), "Building height")
    IN  IF ch.thrown
        THEN [thrown |-> TRUE, checks |-> <<ch.what>>, obj |-> NoBuilding]
        ELSE IF cw.thrown
        THEN [thrown |-> TRUE, checks |-> <<ch.what, cw.what>>, obj |-> NoBuilding]
        ELSE [thrown |-> FALSE, checks |-> <<ch.what, cw.what>>,
              obj |-> [Width |-> cw.value, Height |-> ch.value]]

\* Building::Building: Width is initialised (and checked) before Height.
BuildingCtor(width, height) ==
    LET cw == CheckArgument(width, WidthPred(width), "Building width")
        ch == CheckArgument(height, HeightPred(height), "Building height")
    IN  IF cw.thrown
        THEN [thrown |-> TRUE, checks |-> <<cw.what>>, obj |-> NoBuilding]
        ELSE IF ch.thrown
        THEN [thrown |-> TRUE, checks |-> <<cw.what, ch.what>>, obj |-> NoBuilding]
        ELSE [thrown |-> FALSE, checks |-> <<cw.what, ch.what>>,
              obj |-> [Width |-> cw.value, Height |-> ch.value]]

\* Batman::Batman: Position{check(x), check(y)}, evaluated left to right.
BatmanCtor(x, y) ==
    LET cx == CheckArgument(x, X0Pred(x), "Batman x0")
        cy == CheckArgument(y, Y0Pred(y), "Batman y0")
    IN  IF cx.thrown
        THEN [thrown |-> TRUE, checks |-> <<cx.what>>, obj |-> NoBatman]
        ELSE IF cy.thrown
        THEN [thrown |-> TRUE, checks |-> <<cx.what, cy.what>>, obj |-> NoBatman]
        ELSE [thrown |-> FALSE, checks |-> <<cx.what, cy.what>>,
              obj |-> [Position |-> Point(cx.value, cy.value)]]

GetWidth(building) == building.Width

GetHeight(building) == building.Height

GetPosition(batman) == batman.Position

---------------------------------------------------------------------------
(* Strategy *)

\* bug: a decision that depends on how many decisions were made before
MakeDecision_Stateful(bombDirection) == Point(Len(output) % 2, 0)

\* bug: a decision that follows the feedback
MakeDecision_Reads(bombDirection) ==
    IF bombDirection = "D" THEN Point(0, 1) ELSE Point(0, 0)

\* SimpleStrategy::MakeDecision
MakeDecision(bombDirection) == Point(0, 0)

CreateStrategy == "SimpleStrategy"

---------------------------------------------------------------------------
(* Environment: what feedback agrees with the planted target *)

BombCandidates == {Point(0, 0), Point(0, MIN_HEIGHT - 1)}

\* the probe the next feedback token is relative to
PrevProbe == IF output = <<>> THEN GetPosition(Player) ELSE output[Len(output)]

\* "above" is a smaller y, "left" a smaller x
Consistent(token, probe, target) ==
    \/ token = "U" /\ target.Y < probe.Y
    \/ token = "D" /\ target.Y > probe.Y
    \/ token = "L" /\ target.X < probe.X
    \/ token = "R" /\ target.X > probe.X
    \/ token = "FOUND" /\ target = probe

\* the search window: inclusive bounds; the whole building at first
FullWindow(building) ==
    [xMin |-> 0, xMax |-> GetWidth(building) - 1,
     yMin |-> 0, yMax |-> GetHeight(building) - 1]

NoWindow == [xMin |-> 0, xMax |-> -1, yMin |-> 0, yMax |-> -1]

Min(a, b) == IF a <= b THEN a ELSE b
Max(a, b) == IF a >= b THEN a ELSE b

\* what a feedback token relative to a probe leaves of the window
Narrow(w, token, probe) ==
    CASE token = "U" -> [w EXCEPT !.yMax = Min(w.yMax, probe.Y - 1)]
      [] token = "D" -> [w EXCEPT !.yMin = Max(w.yMin, probe.Y + 1)]
      [] token = "L" -> [w EXCEPT !.xMax = Min(w.xMax, probe.X - 1)]
      [] token = "R" -> [w EXCEPT !.xMin = Max(w.xMin, probe.X + 1)]
      [] token = "FOUND" -> [xMin |-> probe.X, xMax |-> probe.X,
                             yMin |-> probe.Y, yMax |-> probe.Y]
      [] OTHER -> w

Area(w) == (w.xMax - w.xMin + 1) * (w.yMax - w.yMin + 1)

---------------------------------------------------------------------------
(* Game *)

\* bug: the session still runs with no turn left
IsRunning_Zero == TurnsLeft >= 0

IsRunning == TurnsLeft >= STOP_BELOW_TURNS

\* bug: the guard refuses the last turn
NoTurnsLeft_Early == TurnsLeft <= STOP_BELOW_TURNS

\* bug: the guard compares with 0, not with the stop threshold
NoTurnsLeft_Lax == TurnsLeft < 0

\* the guard of BeforeTurn
NoTurnsLeft == ~IsRunning

\* bug: the counter is decremented twice
Decrement_Twice(turns) == turns - 2

\* --TurnsLeft
Decrement(turns) == turns - 1

Init ==
    /\ pc = "ReadBuilding"
    /\ caller = "main"
    /\ House = NoBuilding
    /\ TurnsLeft = 0
    /\ Player = NoBatman
    /\ Strategy = "null"
    /\ initialized = <<>>
    /\ checked = <<>>
    /\ readInts = <<>>
    /\ tokensRead = 0
    /\ bombDir = NoToken
    /\ output = <<>>
    /\ exc = "none"
    /\ firstQuery = NoQuery
    /\ bomb \in BombCandidates
    /\ consistent = TRUE
    /\ window = NoWindow

\* Game::Game, House(ReadBuilding(input)).  The constructors are noexcept:
\* an exception leaving one ends the process through std::terminate.
ReadBuilding ==
    /\ pc = "ReadBuilding"
    /\ \E w \in WidthInputs, h \in HeightInputs :
        LET r == BuildingCtor(w, h) IN
        /\ readInts' = readInts \o <<w, h>>
        /\ checked' = checked \o r.checks
        /\ IF r.thrown
           THEN /\ pc' = "terminated"
                /\ exc' = InvalidArgument
                /\ UNCHANGED <<House, initialized, window>>
           ELSE /\ pc' = "ReadTurns"
                /\ House' = r.obj
                /\ window' = FullWindow(r.obj)
                /\ initialized' = Append(initialized, "House")
                /\ UNCHANGED exc
    /\ UNCHANGED <<caller, TurnsLeft, Player, Strategy, tokensRead, bombDir,
                   output, bomb, consistent,
                   firstQuery>>

\* Game::Game, TurnsLeft(ReadTurns(input))
ReadTurns ==
    /\ pc = "ReadTurns"
    /\ \E t \in TurnsInputs :
        LET r == CheckArgument(t, TurnsPred(t), "Turns left") IN
        /\ readInts' = Append(readInts, t)
        /\ checked' = Append(checked, r.what)
        /\ IF r.thrown
           THEN /\ pc' = "terminated"
                /\ exc' = InvalidArgument
                /\ UNCHANGED <<TurnsLeft, initialized>>
           ELSE /\ pc' = "ReadBatman"
                /\ TurnsLeft' = r.value
                /\ initialized' = Append(initialized, "TurnsLeft")
                /\ UNCHANGED exc
    /\ UNCHANGED <<caller, House, Player, Strategy, tokensRead, bombDir,
                   output, bomb, consistent,
                   firstQuery, window>>

\* Game::Game, Player(ReadBatman(input))
ReadBatman ==
    /\ pc = "ReadBatman"
    /\ \E x \in XInputs, y \in YInputs :
        LET r == BatmanCtor(x, y) IN
        /\ readInts' = readInts \o <<x, y>>
        /\ checked' = checked \o r.checks
        /\ IF r.thrown
           THEN /\ pc' = "terminated"
                /\ exc' = InvalidArgument
                /\ UNCHANGED <<Player, initialized>>
           ELSE /\ pc' = "CreateStrategy"
                /\ Player' = r.obj
                /\ initialized' = Append(initialized, "Player")
                /\ UNCHANGED exc
    /\ UNCHANGED <<caller, House, TurnsLeft, Strategy, tokensRead, bombDir,
                   output, bomb, consistent,
                   firstQuery, window>>

\* Game::Game, Strategy(CreateStrategy()); the Game is constructed.
InitStrategy ==
    /\ pc = "CreateStrategy"
    /\ Strategy' = CreateStrategy
    /\ initialized' = Append(initialized, "Strategy")
    /\ pc' = "idle"
    /\ UNCHANGED <<caller, House, TurnsLeft, Player, checked, readInts,
                   tokensRead, bombDir, output, exc, bomb, consistent,
                   firstQuery, window>>

\* main: while (game.IsRunning()) game.NextTurn(...)
MainLoop ==
    /\ pc = "idle"
    /\ IsRunning
    /\ pc' = "BeforeTurn"
    /\ caller' = "main"
    /\ UNCHANGED <<House, TurnsLeft, Player, Strategy, initialized, checked,
                   readInts, tokensRead, bombDir, output, exc, bomb, consistent,
                   firstQuery, window>>

\* main: the loop condition is false, return 0
MainReturn ==
    /\ pc = "idle"
    /\ ~IsRunning
    /\ pc' = "exit0"
    /\ UNCHANGED <<caller, House, TurnsLeft, Player, Strategy, initialized,
                   checked, readInts, tokensRead, bombDir, output, exc, bomb,
                   consistent,
                   firstQuery, window>>

\* any other user of the public interface calls NextTurn, running or not
ClientNextTurn ==
    /\ pc = "idle"
    /\ pc' = "BeforeTurn"
    /\ caller' = "client"
    /\ exc' = "none"
    /\ UNCHANGED <<House, TurnsLeft, Player, Strategy, initialized, checked,
                   readInts, tokensRead, bombDir, output, bomb, consistent,
                   firstQuery, window>>

\* Game::BeforeTurn.  The exception leaves NextTurn: uncaught in main it
\* ends the process, a client gets it and still holds the Game.
BeforeTurn ==
    /\ pc = "BeforeTurn"
    /\ IF NoTurnsLeft
       THEN /\ exc' = SessionNotRunning
            /\ pc' = IF caller = "main" THEN "terminated" ELSE "idle"
       ELSE /\ pc' = "OnTurn"
            /\ UNCHANGED exc
    /\ UNCHANGED <<caller, House, TurnsLeft, Player, Strategy, initialized,
                   checked, readInts, tokensRead, bombDir, output, bomb,
                   consistent,
                   firstQuery, window>>

\* Game::OnTurn, input >> bombDir
OnTurnRead ==
    /\ pc = "OnTurn"
    /\ \E token \in Tokens :
        /\ bombDir' = token
        /\ consistent' = (consistent /\ Consistent(token, PrevProbe, bomb))
        /\ window' = IF consistent /\ Consistent(token, PrevProbe, bomb)
                     THEN Narrow(window, token, PrevProbe)
                     ELSE NoWindow
    /\ tokensRead' = tokensRead + 1
    /\ pc' = "OnTurnDecide"
    /\ UNCHANGED <<caller, House, TurnsLeft, Player, Strategy, initialized,
                   checked, readInts, output, exc, bomb,
                   firstQuery>>

\* bug: the coordinate is written twice
OnTurnEmit_Twice ==
    /\ pc = "OnTurnDecide"
    /\ LET jumpTo == MakeDecision(bombDir) IN
        /\ output' = output \o <<jumpTo, jumpTo>>
        /\ firstQuery' = IF firstQuery.asked THEN firstQuery
                         ELSE [asked |-> TRUE, token |-> bombDir, point |-> jumpTo]
    /\ bombDir' = NoToken
    /\ pc' = "AfterTurn"
    /\ UNCHANGED <<caller, House, TurnsLeft, Player, Strategy, initialized,
                   checked, readInts, tokensRead, exc, bomb, consistent, window>>

\* bug: the turn moves the Player to the coordinate written
OnTurnEmit_Moves ==
    /\ pc = "OnTurnDecide"
    /\ LET jumpTo == MakeDecision(bombDir) IN
        /\ output' = Append(output, jumpTo)
        /\ Player' = [Position |-> jumpTo]
        /\ firstQuery' = IF firstQuery.asked THEN firstQuery
                         ELSE [asked |-> TRUE, token |-> bombDir, point |-> jumpTo]
    /\ bombDir' = NoToken
    /\ pc' = "AfterTurn"
    /\ UNCHANGED <<caller, House, TurnsLeft, Strategy, initialized,
                   checked, readInts, tokensRead, exc, bomb, consistent, window>>

\* Game::OnTurn, jumpTo = Strategy->MakeDecision(bombDir); output << jumpTo
OnTurnEmit ==
    /\ pc = "OnTurnDecide"
    /\ LET jumpTo == MakeDecision(bombDir) IN
        /\ output' = Append(output, jumpTo)
        /\ firstQuery' = IF firstQuery.asked THEN firstQuery
                         ELSE [asked |-> TRUE, token |-> bombDir, point |-> jumpTo]
    /\ bombDir' = NoToken
    /\ pc' = "AfterTurn"
    /\ UNCHANGED <<caller, House, TurnsLeft, Player, Strategy, initialized,
                   checked, readInts, tokensRead, exc, bomb, consistent, window>>

\* Game::AfterTurn; NextTurn returns
AfterTurn ==
    /\ pc = "AfterTurn"
    /\ TurnsLeft' = Decrement(TurnsLeft)
    /\ pc' = "idle"
    /\ UNCHANGED <<caller, House, Player, Strategy, initialized, checked,
                   readInts, tokensRead, bombDir, output, exc, bomb, consistent,
                   firstQuery, window>>

Bootstrap == ReadBuilding \/ ReadTurns \/ ReadBatman \/ InitStrategy

Turn == BeforeTurn \/ OnTurnRead \/ OnTurnEmit \/ AfterTurn

\* the program: main drives the Game
Next == Bootstrap \/ MainLoop \/ MainReturn \/ Turn

Spec == Init /\ [][Next]_vars

\* the program runs to its end: a sequential process that is never stopped
FairSpec == Spec /\ WF_vars(Next)

\* the Game driven through its public interface by main or by a client
ApiNext == Next \/ ClientNextTurn

ApiSpec == Init /\ [][ApiNext]_vars

---------------------------------------------------------------------------
(* Helpers of the properties *)

Constructed(member) == \E i \in 1 .. Len(initialized) : initialized[i] = member

InTurn == pc \in {"BeforeTurn", "OnTurn", "OnTurnDecide", "AfterTurn"}

\* the turn budget read at bootstrap
Budget == readInts[3]

WidthRead == readInts[1]
HeightRead == readInts[2]

BuildingInRange ==
    /\ 1 <= WidthRead /\ WidthRead <= 10000
    /\ 5 <= HeightRead /\ HeightRead <= 10000

Found == output # <<>> /\ output[Len(output)] = bomb

StartInside ==
    /\ 0 <= GetPosition(Player).X /\ GetPosition(Player).X < GetWidth(House)
    /\ 0 <= GetPosition(Player).Y /\ GetPosition(Player).Y < GetHeight(House)

RECURSIVE CeilLog2(_)
CeilLog2(n) == IF n <= 1 THEN 0 ELSE 1 + CeilLog2((n + 1) \div 2)

---------------------------------------------------------------------------
(* C1: a turn that completes decreases TurnsLeft by exactly 1; a turn gets   *)
(* past BeforeTurn exactly when TurnsLeft >= 1 and main leaves its loop      *)
(* only when TurnsLeft < 1; once TurnsLeft is initialised nothing but        *)
(* AfterTurn changes it, so that it always equals the budget read at         *)
(* bootstrap minus the number of turns completed.                            *)
C1_CounterStep ==
    /\ (pc = "AfterTurn" => pc' = "idle" /\ TurnsLeft' = TurnsLeft - 1)
    /\ (Constructed("TurnsLeft") /\ TurnsLeft' # TurnsLeft => pc = "AfterTurn")
    /\ (pc = "BeforeTurn" => (pc' = "OnTurn" <=> TurnsLeft >= 1))
    /\ (pc' = "exit0" => TurnsLeft < 1)

C1_CounterState ==
    /\ (pc \in {"idle", "BeforeTurn", "OnTurn", "OnTurnDecide", "exit0"}
            => TurnsLeft = Budget - Len(output))
    /\ (pc = "AfterTurn" => TurnsLeft = Budget - Len(output) + 1)

C1_TurnCounter == [][C1_CounterStep]_vars /\ []C1_CounterState

C1_Witness == pc = "idle" /\ Len(output) >= 2 /\ TurnsLeft < 1

(* C2: once the Game is constructed, main reaches return 0; it never calls   *)
(* NextTurn on a session that is not running and the "not running" error is  *)
(* never raised.                                                             *)
C2_MainTerminates ==
    /\ (pc = "idle") ~> (pc = "exit0")
    /\ [](pc = "BeforeTurn" => TurnsLeft >= 1)
    /\ [](exc # SessionNotRunning)

C2_Witness == pc = "exit0" /\ exc = "none" /\ Len(output) > 0

(* C3: a NextTurn on a session that is not running raises the "not running"  *)
(* error and returns: it reads no feedback token, writes no coordinate and   *)
(* leaves TurnsLeft as it was.                                               *)
C3_NotRunningFails ==
    [][(pc = "BeforeTurn" /\ TurnsLeft < 1)
        => /\ exc' = SessionNotRunning
           /\ ~InTurn'
           /\ UNCHANGED <<tokensRead, output, TurnsLeft>>]_vars

C3_Witness ==
    /\ pc = "idle" /\ caller = "client" /\ exc = SessionNotRunning
    /\ TurnsLeft = 0 /\ tokensRead = Len(output)

(* C4: when the start is inside the building, every feedback token agreed   *)
(* with the planted target and the budget allows ceil(log2(width)) + ceil(log2(height)) turns, one of the    *)
(* probes of the first that many turns is the target.                        *)
C4_Converges ==
    LET bound == CeilLog2(GetWidth(House)) + CeilLog2(GetHeight(House)) IN
    (/\ pc = "idle"
     /\ StartInside
     /\ consistent
     /\ Budget >= bound
     /\ Len(output) >= bound)
        => \E k \in 1 .. bound : output[k] = bomb

(* C5: once a probe equals the target (the feedback having agreed with the  *)
(* target all along), no further feedback token is read and no further       *)
(* coordinate is written.                                                    *)
C5_StopsWhenFound ==
    [][(Found /\ consistent /\ StartInside)
        => UNCHANGED <<tokensRead, output>>]_vars

(* C6: the Building is constructed exactly when 1 <= width <= 10000 and     *)
(* 5 <= height <= 10000; any other pair ends in the InvalidArgument error;   *)
(* once constructed, GetWidth and GetHeight return the width and height      *)
(* read, in every later state.                                               *)
C6_BuildingBounds ==
    Len(readInts) >= 2 =>
        /\ Constructed("House") <=> BuildingInRange
        /\ ~BuildingInRange => pc = "terminated" /\ exc = InvalidArgument
        /\ BuildingInRange => /\ GetWidth(House) = WidthRead
                              /\ GetHeight(House) = HeightRead

C6_Witness ==
    /\ pc = "exit0" /\ Constructed("House")
    /\ GetWidth(House) = 10000 /\ GetHeight(House) = 5

(* C7: when a bootstrap value read is outside its validated range (width    *)
(* [1,10000], height [5,10000], turns [2,100], start x and y [0,9999]) the   *)
(* process has ended with the InvalidArgument error, no feedback token was   *)
(* read, no coordinate was written and the Game was never constructed.       *)
BadBootstrap ==
    \/ Len(readInts) >= 2 /\ ~BuildingInRange
    \/ Len(readInts) >= 3 /\ ~(2 <= readInts[3] /\ readInts[3] <= 100)
    \/ Len(readInts) >= 5 /\ ~(0 <= readInts[4] /\ readInts[4] <= 9999)
    \/ Len(readInts) >= 5 /\ ~(0 <= readInts[5] /\ readInts[5] <= 9999)

C7_InvalidBootstrapAborts ==
    BadBootstrap =>
        /\ pc = "terminated" /\ exc = InvalidArgument
        /\ tokensRead = 0 /\ output = <<>>
        /\ ~Constructed("Strategy")

C7_Witness == BadBootstrap /\ Len(readInts) = 5 /\ pc = "terminated"

(* C8: after a successful bootstrap the start coordinate is inside the      *)
(* building read in the same bootstrap.                                      *)
C8_StartInsideBuilding ==
    Constructed("Player") => StartInside

(* C9: a feedback token "above" (U) while the previous probe has y = 0 (the  *)
(* start being inside the building) ends the turn with a DataIntegrityError  *)
(* and no coordinate is written.                                             *)
C9_ContradictionRejected ==
    [][(pc = "OnTurnDecide" /\ StartInside /\ bombDir = "U" /\ PrevProbe.Y = 0)
        => exc' = "DataIntegrityError" /\ output' = output]_vars

(* C10: a decision asked with the feedback of the first decision returns    *)
(* the coordinate the first decision returned and leaves the Strategy as it  *)
(* was, however many decisions were made in between.                         *)
C10_DecisionRepeats ==
    [][(pc = "OnTurnDecide" /\ firstQuery.asked /\ firstQuery.token = bombDir)
        => /\ output' = Append(output, firstQuery.point)
           /\ Strategy' = Strategy]_vars

C10_Witness ==
    /\ pc = "OnTurnDecide" /\ firstQuery.asked /\ firstQuery.token = bombDir
    /\ Len(output) >= 3

(* C11: in a turn the feedback token is read before the coordinate is       *)
(* written and TurnsLeft is decremented after it; a step reads at most one   *)
(* token or writes at most one coordinate, never both; after k completed     *)
(* turns exactly k tokens were read and k coordinates written.               *)
TurnsCompleted == Budget - TurnsLeft

C11_TurnState ==
    /\ (pc \in {"idle", "BeforeTurn", "OnTurn", "exit0"}
            => tokensRead = TurnsCompleted /\ Len(output) = TurnsCompleted)
    /\ (pc = "OnTurnDecide"
            => tokensRead = TurnsCompleted + 1 /\ Len(output) = TurnsCompleted)
    /\ (pc = "AfterTurn"
            => tokensRead = TurnsCompleted + 1 /\ Len(output) = TurnsCompleted + 1)

C11_TurnStep ==
    /\ tokensRead' \in {tokensRead, tokensRead + 1}
    /\ Len(output') \in {Len(output), Len(output) + 1}
    /\ (tokensRead' # tokensRead => output' = output /\ TurnsLeft' = TurnsLeft)
    /\ (output' # output => tokensRead' = tokensRead /\ TurnsLeft' = TurnsLeft)

C12_WindowShrinks ==
    [][(pc = "OnTurn" /\ pc' = "OnTurnDecide" /\ StartInside /\ consistent')
        => /\ Area(window') <= Area(window)
           /\ (Area(window) > 1 => Area(window') < Area(window))]_vars

(* C13: every coordinate written is (0,0), whatever feedback was read: the  *)
(* output is decided by the number of turns played alone, so two sessions    *)
(* that played as many turns wrote the same output.                          *)
C13_OutputIgnoresFeedback ==
    output = [i \in 1 .. Len(output) |-> Point(0, 0)]

C13_Witness ==
    /\ Len(output) >= 2 /\ ~consistent
    /\ firstQuery.token = "D" /\ pc = "exit0"

C15_CounterRange ==
    Constructed("TurnsLeft") => 0 <= TurnsLeft /\ TurnsLeft <= 100

C15_Witness ==
    /\ pc = "idle" /\ caller = "client" /\ exc = SessionNotRunning
    /\ TurnsLeft = 0 /\ Budget = 100

(* C16: every coordinate written lies inside the building read at           *)
(* bootstrap: 0 <= x <= width - 1 and 0 <= y <= height - 1.                  *)
C16_OutputInsideBuilding ==
    \A i \in 1 .. Len(output) :
        /\ 0 <= output[i].X /\ output[i].X <= WidthRead - 1
        /\ 0 <= output[i].Y /\ output[i].Y <= HeightRead - 1

C16_Witness == Len(output) >= 2 /\ WidthRead = 1 /\ HeightRead = 5

(* C17: no step of a NextTurn changes the Building, the Player or the       *)
(* Strategy; the Player's position is the start coordinate read at           *)
(* bootstrap in every state, also when another coordinate was written.       *)
C17_PlayerAtStart ==
    Constructed("Player") =>
        GetPosition(Player) = Point(readInts[4], readInts[5])

C17_TurnFrame ==
    [][InTurn => UNCHANGED <<House, Player, Strategy>>]_vars /\ []C17_PlayerAtStart

C17_Witness ==
    /\ pc = "idle" /\ Len(output) >= 2
    /\ GetPosition(Player) # output[Len(output)]

(* C18: the CheckArgument calls are made in the order width, height, turns, *)
(* start x, start y, each on a value already read; every value checked       *)
(* before the last one was in range; when startup is aborted the last value  *)
(* checked is the one out of range, nothing is checked after it and the      *)
(* values of the later members were not read (an invalid building: 2 ints    *)
(* read, an invalid budget: 3).                                              *)
CheckOrder ==
    <<"Building width", "Building height", "Turns left", "Batman x0", "Batman y0">>

InRangeAt(i) ==
    CASE i = 1 -> 1 <= readInts[1] /\ readInts[1] <= 10000
      [] i = 2 -> 5 <= readInts[2] /\ readInts[2] <= 10000
      [] i = 3 -> 2 <= readInts[3] /\ readInts[3] <= 100
      [] i = 4 -> 0 <= readInts[4] /\ readInts[4] <= 9999
      [] i = 5 -> 0 <= readInts[5] /\ readInts[5] <= 9999

IntsReadFor(checks) == IF checks <= 2 THEN 2 ELSE IF checks = 3 THEN 3 ELSE 5

C18_BootstrapOrder ==
    /\ Len(checked) <= Len(CheckOrder)
    /\ checked = SubSeq(CheckOrder, 1, Len(checked))
    /\ Len(checked) <= Len(readInts)
    /\ \A i \in 1 .. Len(checked) - 1 : InRangeAt(i)
    /\ (exc = InvalidArgument =>
            /\ pc = "terminated"
            /\ Len(checked) >= 1
            /\ ~InRangeAt(Len(checked))
            /\ Len(readInts) = IntsReadFor(Len(checked)))
    /\ (exc # InvalidArgument /\ Len(checked) >= 1 => InRangeAt(Len(checked)))

C18_Witness ==
    /\ pc = "terminated"
    /\ checked = <<"Building width", "Building height", "Turns left">>
    /\ Len(readInts) = 3

===========================================================================
